---- MODULE Spec2Model ----
(***************************************************************************)
(* Model of the TomTom traffic ETL pipeline (traffic_duck):                *)
(*   traffic_transform.transform_traffic_data   (batch transformer)        *)
(*   load_duckdb.load_transformed_data_to_duckdb (store loader)            *)
(*   main.main                                   (orchestrator)            *)
(*   extract_traffic.parse_traffic_response_to_dataframe,                  *)
(*   extract_weather.parse_weather_response_to_dataframe (parsers)         *)
(*   extract_traffic.extract_traffic_data_for_areas (point extraction)     *)
(*   extract_weather.extract_weather_data           (weather extraction)   *)
(*                                                                         *)
(* Numbers are exact: a column value is an integer, a mean and the travel  *)
(* time estimate are rationals [n, d] with d > 0.  NaN (pandas' mean of a  *)
(* column without a non-null value) and Python's None are values of their  *)
(* own.  IEEE infinities, overflow and rounding are outside the model.     *)
(***************************************************************************)
EXTENDS Integers, Sequences, FiniteSets, TLC

(***************************************************************************)
(* Bounds of the model.                                                    *)
(***************************************************************************)
MaxFiles == 3      \* length of the file_paths list given to the transform
MaxRows  == 3      \* rows held by the files of one file_paths list, in total
MaxCalls == 3      \* calls of the store loader in one behaviour
MaxLoadRows == 2   \* rows of a table given to the store loader
MaxCoords == 2     \* 'coordinate' entries of one traffic document
MaxPoints == 2     \* points of a list given to the extraction
MaxRuns == 2       \* calls of the extraction in one behaviour
MaxTime == 1       \* seconds the clock goes on for

(***************************************************************************)
(* Cells, rows, frames (pandas DataFrame), batch files.                    *)
(***************************************************************************)
Null == <<>>                      \* a null cell (None / NaN in a column)
Cell(v) == <<v>>                  \* a non-null cell holding the number v
IsNull(c) == c = Null
ValueOf(c) == c[1]

\* traffic_transform.py:52, in the order of the list
numeric_cols_for_avg ==
    << "currentSpeed", "freeFlowSpeed", "currentTravelTime",
       "freeFlowTravelTime", "confidence" >>

Metrics == { numeric_cols_for_avg[i] : i \in DOMAIN numeric_cols_for_avg }

\* a column the parser writes that is not averaged (extract_traffic.py:149)
OtherCols == { "coordinate_count" }

AllCols == Metrics \cup OtherCols

\* pd.DataFrame(): no column, no row
EmptyFrame == [cols |-> {}, rows |-> <<>>]

\* DataFrame.empty: some axis has length 0
IsEmpty(df) == df.cols = {} \/ Len(df.rows) = 0

(***************************************************************************)
(* traffic_transform.transform_traffic_data                                *)
(***************************************************************************)
\* A batch file as pd.read_parquet finds it: readable with a frame, or not.
Unreadable == [readable |-> FALSE, df |-> EmptyFrame]
ReadableFile(df) == [readable |-> TRUE, df |-> df]

\* a slip: the loop ends at the first file that cannot be read
RECURSIVE ReadAllStopAtError(_)
ReadAllStopAtError(fs) ==
    IF fs = <<>> \/ ~Head(fs).readable THEN <<>>
    ELSE <<Head(fs).df>> \o ReadAllStopAtError(Tail(fs))

\* the read loop, lines 29-38: frames of the files read, in file order
RECURSIVE ReadAll(_)
ReadAll(file_paths) ==
    IF file_paths = <<>> THEN <<>>
    ELSE LET f == Head(file_paths)
             rest == ReadAll(Tail(file_paths))
         IN  IF f.readable THEN <<f.df>> \o rest ELSE rest

RECURSIVE UnionCols(_)
UnionCols(dfs) ==
    IF dfs = <<>> THEN {} ELSE Head(dfs).cols \cup UnionCols(Tail(dfs))

\* a row of a frame widened to the columns cs, a missing column filled null
Widen(row, cs) == [c \in cs |-> IF c \in DOMAIN row THEN row[c] ELSE Null]

WidenAll(rows, cs) == [i \in DOMAIN rows |-> Widen(rows[i], cs)]

RECURSIVE ConcatRows(_, _)
ConcatRows(dfs, cs) ==
    IF dfs = <<>> THEN <<>>
    ELSE WidenAll(Head(dfs).rows, cs) \o ConcatRows(Tail(dfs), cs)

\* pd.concat(all_dataframes, ignore_index=True), line 47
Concat(dfs) ==
    LET cs == UnionCols(dfs) IN [cols |-> cs, rows |-> ConcatRows(dfs, cs)]

\* values of Python that are no number
None == [kind |-> "None"]
NaN == [kind |-> "nan"]

RECURSIVE Gcd(_, _)
Gcd(a, b) == IF b = 0 THEN a ELSE Gcd(b, a % b)

Abs(a) == IF a < 0 THEN 0 - a ELSE a

\* the number n / d (d > 0), in lowest terms: equal numbers are equal values.
\* A division by 0 leaves d = 0.
Num(n, d) ==
    LET g == Gcd(Abs(n), Abs(d))
    IN  IF g = 0 THEN [kind |-> "num", n |-> n, d |-> d]
        ELSE [kind |-> "num", n |-> n \div g, d |-> d \div g]
IsNum(x) == x.kind = "num"

RECURSIVE SumCells(_)
SumCells(cells) ==
    IF cells = <<>> THEN 0
    ELSE (IF IsNull(Head(cells)) THEN 0 ELSE ValueOf(Head(cells)))
         + SumCells(Tail(cells))

RECURSIVE CountCells(_)
CountCells(cells) ==
    IF cells = <<>> THEN 0
    ELSE (IF IsNull(Head(cells)) THEN 0 ELSE 1) + CountCells(Tail(cells))

Column(df, col) == [i \in DOMAIN df.rows |-> df.rows[i][col]]

\* a slip: the sum is divided by the number of rows, nulls included
MeanOverAllRows(df, col) ==
    IF Len(df.rows) = 0 THEN NaN
    ELSE Num(SumCells(Column(df, col)), Len(df.rows))

\* Series.mean(), line 66: nulls are skipped; NaN without a non-null value
Mean(df, col) ==
    LET cells == Column(df, col)
        k == CountCells(cells)
    IN  IF k = 0 THEN NaN ELSE Num(SumCells(cells), k)

\* a key of the averages dict: "average_<col>" followed by "_<unit>" if any
Key(col, unit) == [col |-> col, unit |-> unit]

\* lines 57-64
AvgKey(col) ==
    IF col \in {"currentSpeed", "freeFlowSpeed"} THEN Key(col, "kmph")
    ELSE IF col \in {"currentTravelTime", "freeFlowTravelTime"}
         THEN Key(col, "seconds_per_segment")
    ELSE IF col = "confidence" THEN Key(col, "unitless")
    ELSE Key(col, "")

\* the key given to a column that the combined table lacks, line 70
MissingKey(col) == Key(col, "")

\* dict assignment
Put(d, k, v) == [x \in DOMAIN d \cup {k} |-> IF x = k THEN v ELSE d[x]]

EmptyDict == [x \in {} |-> None]

\* a slip: a column that the combined table lacks gets no entry
AverageStepSkipMissing(avgs, df, col) ==
    IF col \in df.cols THEN Put(avgs, AvgKey(col), Mean(df, col)) ELSE avgs

\* one pass of the loop of lines 54-70
AverageStep(averages, df, col) ==
    IF col \in df.cols THEN Put(averages, AvgKey(col), Mean(df, col))
    ELSE IF MissingKey(col) \notin DOMAIN averages
         THEN Put(averages, MissingKey(col), None)
    ELSE averages

RECURSIVE AveragesLoop(_, _, _)
AveragesLoop(averages, df, i) ==
    IF i > Len(numeric_cols_for_avg) THEN averages
    ELSE AveragesLoop(AverageStep(averages, df, numeric_cols_for_avg[i]),
                      df, i + 1)

Averages(df) == AveragesLoop(EmptyDict, df, 1)

\* dict.get(key): None when the key is missing
Get(d, k) == IF k \in DOMAIN d THEN d[k] ELSE None

route_distance_meters == 5000
KmToMeters == 1000
HourToSeconds == 3600

\* a slip: the conversion factor upside down
SpeedMpsInverted(avg) == Num(avg.n * HourToSeconds, avg.d * KmToMeters)

\* line 93: avg_current_speed_kmph * 1000 / 3600
SpeedMps(avg) == Num(avg.n * KmToMeters, avg.d * HourToSeconds)

\* line 90: isinstance(avg, (int, float)) and avg >= 0 and distance > 0.
\* NaN is a float and NaN >= 0 is false.
SpeedUsable(avg) ==
    /\ avg.kind \in {"num", "nan"}
    /\ IsNum(avg) /\ avg.n >= 0
    /\ route_distance_meters > 0

\* a slip: no test of the converted speed before the division
EstimateNoZeroCheck(avgs) ==
    LET avg == Get(avgs, Key("currentSpeed", "kmph"))
    IN  IF SpeedUsable(avg)
        THEN LET mps == SpeedMps(avg)
             IN  Num(route_distance_meters * mps.d, mps.n)
        ELSE None

\* lines 86-105
Estimate(averages) ==
    LET avg == Get(averages, Key("currentSpeed", "kmph"))
    IN  IF SpeedUsable(avg)
        THEN LET mps == SpeedMps(avg)
             IN  IF mps.n > 0
                 THEN Num(route_distance_meters * mps.d, mps.n)
                 ELSE None
        ELSE None

EmptyResult == [df |-> EmptyFrame, averages |-> EmptyDict, estimate |-> None]

\* the whole function, lines 8-111
transform_traffic_data(file_paths) ==
    IF file_paths = <<>> THEN EmptyResult
    ELSE LET all_dataframes == ReadAll(file_paths)
         IN  IF all_dataframes = <<>> THEN EmptyResult
             ELSE LET combined_df == Concat(all_dataframes)
                      averages == Averages(combined_df)
                  IN  [df |-> combined_df,
                       averages |-> averages,
                       estimate |-> Estimate(averages)]

(***************************************************************************)
(* Inputs of the transform: the batch files a file_paths list names.       *)
(***************************************************************************)
Row(cs, ffs, ctt, fftt, conf) ==
    [c \in AllCols |->
        CASE c = "currentSpeed" -> cs
          [] c = "freeFlowSpeed" -> ffs
          [] c = "currentTravelTime" -> ctt
          [] c = "freeFlowTravelTime" -> fftt
          [] c = "confidence" -> conf
          [] OTHER -> Cell(2)]

\* rows as the parser writes them: numbers in km/h and seconds, or null
RowSamples ==
    { Row(Cell(36), Cell(50), Cell(120), Cell(80), Cell(7)),
      Row(Cell(0), Null, Cell(90), Cell(60), Cell(8)),
      Row(Cell(0 - 36), Cell(70), Null, Cell(100), Null),
      Row(Null, Cell(65), Cell(150), Null, Cell(6)) }

\* column sets of a batch file: all the parser's columns, a file without
\* the currentSpeed and confidence columns, a file without any metric
ColSets ==
    { AllCols, AllCols \ {"currentSpeed", "confidence"}, OtherCols }

Restrict(row, cs) == [c \in cs |-> row[c]]

\* the frames of k rows
Frames(k) ==
    IF k = 0 THEN { EmptyFrame }
    ELSE { [cols |-> cs, rows |-> [i \in 1..k |-> Restrict(r[i], cs)]] :
             cs \in ColSets, r \in [1..k -> RowSamples] }

\* the files of k rows; an unreadable file holds no row that is read
Files(k) ==
    { ReadableFile(df) : df \in Frames(k) }
      \cup (IF k = 0 THEN {Unreadable} ELSE {})

RECURSIVE SumSeq(_)
SumSeq(ks) == IF ks = <<>> THEN 0 ELSE Head(ks) + SumSeq(Tail(ks))

\* the row counts of the files of a list: at most MaxFiles files that hold
\* at most MaxRows rows together
Shapes ==
    UNION { { ks \in [1..n -> 0..MaxRows] : SumSeq(ks) <= MaxRows } :
              n \in 0..MaxFiles }

\* the lists of files whose row counts are ks
RECURSIVE Inputs(_)
Inputs(ks) ==
    IF ks = <<>> THEN { <<>> }
    ELSE { <<f>> \o rest : f \in Files(Head(ks)), rest \in Inputs(Tail(ks)) }

(***************************************************************************)
(* load_duckdb.load_transformed_data_to_duckdb                             *)
(***************************************************************************)
\* the stored table 'traffic_data': absent, or present with a frame
NoTable == <<>>
Table(df) == <<df>>

\* a slip: INSERT INTO in place of CREATE OR REPLACE
AppendTable(table, df) ==
    IF table = NoTable THEN Table(df)
    ELSE Table([cols |-> table[1].cols \cup df.cols,
                rows |-> table[1].rows \o df.rows])

\* CREATE OR REPLACE TABLE traffic_data AS SELECT * FROM df, line 29
ReplaceTable(table, df) == Table(df)

\* the tables a caller hands to the loader: no column at all, or the
\* parser's columns with up to MaxLoadRows rows of two kinds
LoadRows == { r \in RowSamples : r["currentSpeed"] \in {Cell(36), Cell(0)} }

LoadFrames ==
    { EmptyFrame } \cup
    { [cols |-> AllCols, rows |-> r] :
        r \in UNION { [1..k -> LoadRows] : k \in 0..MaxLoadRows } }

(***************************************************************************)
(* extract_traffic.parse_traffic_response_to_dataframe                     *)
(*                                                                         *)
(* A response text is of one of three kinds: "empty" (None or ""), not     *)
(* well-formed ("malformed": ET.fromstring raises ParseError), or a        *)
(* document ("doc").  Of a text, the model keeps what the parser looks at: *)
(* the seven scalar children of the root and the entries of the            *)
(* 'coordinates' child.  An element is <<>> when the text has no such      *)
(* element and <<text>> when it has one; the text "" stands for an element *)
(* without text, whose ElementTree text is None.                           *)
(***************************************************************************)
NoElement == <<>>
Element(text) == <<text>>

\* extract_traffic.py:130-131
scalar_tags ==
    << "frc", "currentSpeed", "freeFlowSpeed", "currentTravelTime",
       "freeFlowTravelTime", "confidence", "roadClosure" >>

ScalarTags == { scalar_tags[i] : i \in DOMAIN scalar_tags }

\* extract_traffic.py:159
numeric_cols ==
    << "currentSpeed", "freeFlowSpeed", "currentTravelTime",
       "freeFlowTravelTime", "confidence" >>

NumericCols == { numeric_cols[i] : i \in DOMAIN numeric_cols }

TrafficColumns == ScalarTags \cup { "coordinate_count", "coordinates" }

\* the texts that are numerals, and the number each one stands for
\* (float() and pd.to_numeric); every other text is not a number
NumberOf ==
    ("0" :> 0) @@ ("7" :> 7) @@ ("10" :> 10) @@ ("11" :> 11) @@ ("36" :> 36)
    @@ ("50" :> 50) @@ ("80" :> 80) @@ ("106" :> 106) @@ ("107" :> 107)
    @@ ("120" :> 120) @@ ("-10" :> 0 - 10)

IsNumeral(text) == text \in DOMAIN NumberOf

\* str.lower on the texts of the model
Lower(text) ==
    CASE text = "TRUE" -> "true"
      [] text = "True" -> "true"
      [] text = "None" -> "none"
      [] text = "FRC3" -> "frc3"
      [] OTHER -> text

\* a slip: a text that is not well-formed is taken for a document
WellFormedAlways(xml_data) == TRUE

\* line 127: ET.fromstring(xml_data) returns the root
WellFormed(xml_data) == xml_data.kind = "doc"

\* a slip: a missing tag is given the text "0"
ElementTextOrZero(element) ==
    IF element = NoElement THEN Cell("0")
    ELSE IF element[1] = "" THEN Null ELSE Cell(element[1])

\* line 135: element.text if element is not None else None
ElementText(element) ==
    IF element = NoElement \/ element[1] = "" THEN Null ELSE Cell(element[1])

\* lines 144-145: the guard before float(): the element is there and its
\* text is neither None nor ""
HasText(element) == element # NoElement /\ element[1] # ""

\* lines 144-145: float(text) raises ValueError
FloatRaises(element) == HasText(element) /\ ~IsNumeral(element[1])

\* lines 144-145: float(text) if ... else None, when float does not raise
FloatOrNone(element) ==
    IF HasText(element) THEN Cell(NumberOf[element[1]]) ELSE Null

\* line 138-140: the 'coordinate' entries under the 'coordinates' element
CoordinateEntries(xml_data) ==
    IF xml_data.coords = NoElement THEN <<>> ELSE xml_data.coords[1]

\* lines 140-145: some entry makes float() raise
CoordinatesRaise(entries) ==
    \E i \in DOMAIN entries :
        FloatRaises(entries[i].lat) \/ FloatRaises(entries[i].lon)

RECURSIVE CoordinatesList(_)
\* lines 137-147: the (lat, lon) pairs of the entries that have both
CoordinatesList(entries) ==
    IF entries = <<>> THEN <<>>
    ELSE LET lat == FloatOrNone(Head(entries).lat)
             lon == FloatOrNone(Head(entries).lon)
         IN  (IF lat # Null /\ lon # Null
              THEN << << ValueOf(lat), ValueOf(lon) >> >>
              ELSE <<>>) \o CoordinatesList(Tail(entries))

\* a slip: the entries of the document are counted, kept or not
CoordinateCountOfEntries(entries, coordinates_list) == Len(entries)

\* line 149: len(coordinates_list)
CoordinateCount(entries, coordinates_list) == Len(coordinates_list)

\* lines 128-150: the record before the conversions
SegmentData(xml_data) ==
    LET entries == CoordinateEntries(xml_data)
        coordinates_list == CoordinatesList(entries)
    IN  [c \in TrafficColumns |->
            IF c \in ScalarTags THEN ElementText(xml_data.scalars[c])
            ELSE IF c = "coordinate_count"
                 THEN Cell(CoordinateCount(entries, coordinates_list))
                 ELSE coordinates_list]

\* line 162: pd.to_numeric(errors='coerce') of one cell
ToNumeric(cell) ==
    IF IsNull(cell) THEN Null
    ELSE IF IsNumeral(ValueOf(cell)) THEN Cell(NumberOf[ValueOf(cell)])
    ELSE Null

\* line 165: astype(str).str.lower() == 'true'; str(None) is "None"
IsTrueText(cell) ==
    Lower(IF IsNull(cell) THEN "None" ELSE ValueOf(cell)) = "true"

\* lines 159-165: the conversions of the columns
Converted(segment_data) ==
    [c \in DOMAIN segment_data |->
        IF c \in NumericCols THEN ToNumeric(segment_data[c])
        ELSE IF c = "roadClosure" THEN Cell(IsTrueText(segment_data[c]))
        ELSE segment_data[c]]

\* lines 112-177
parse_traffic_response_to_dataframe(xml_data) ==
    IF xml_data.kind = "empty" THEN EmptyFrame                  \* 121-123
    ELSE IF ~WellFormed(xml_data) THEN EmptyFrame               \* 170-173
    ELSE IF CoordinatesRaise(CoordinateEntries(xml_data))
         THEN EmptyFrame                                        \* 174-177
    ELSE [cols |-> TrafficColumns,
          rows |-> << Converted(SegmentData(xml_data)) >>]

(***************************************************************************)
(* Response texts given to the traffic parser.                             *)
(***************************************************************************)
\* the elements a text may have for a scalar tag
ElementsOf(tag) ==
    CASE tag = "frc" -> { NoElement, Element("FRC3") }
      [] tag = "currentSpeed" -> { NoElement, Element("36"), Element("abc") }
      [] tag = "freeFlowSpeed" -> { NoElement, Element("50") }
      [] tag = "currentTravelTime" -> { NoElement, Element("120") }
      [] tag = "freeFlowTravelTime" -> { NoElement, Element("") }
      [] tag = "confidence" -> { NoElement, Element("7") }
      [] tag = "roadClosure" ->
            { NoElement, Element("true"), Element("TRUE"), Element("false") }

Scalars ==
    { [t \in ScalarTags |->
          CASE t = "frc" -> a
            [] t = "currentSpeed" -> b
            [] t = "freeFlowSpeed" -> c
            [] t = "currentTravelTime" -> d
            [] t = "freeFlowTravelTime" -> e
            [] t = "confidence" -> f
            [] t = "roadClosure" -> g] :
        a \in ElementsOf("frc"), b \in ElementsOf("currentSpeed"),
        c \in ElementsOf("freeFlowSpeed"), d \in ElementsOf("currentTravelTime"),
        e \in ElementsOf("freeFlowTravelTime"), f \in ElementsOf("confidence"),
        g \in ElementsOf("roadClosure") }

Coordinate(lat, lon) == [lat |-> lat, lon |-> lon]

\* two entries with both values, one without latitude, one whose longitude
\* has no text, one whose latitude is not a number
CoordinateSamples ==
    { Coordinate(Element("10"), Element("106")),
      Coordinate(Element("11"), Element("107")),
      Coordinate(NoElement, Element("106")),
      Coordinate(Element("10"), Element("")),
      Coordinate(Element("abc"), Element("106")) }

Coordinates ==
    { NoElement } \cup
    { Element(es) : es \in UNION { [1..k -> CoordinateSamples] : k \in 0..MaxCoords } }

NoXml == [kind |-> "empty", scalars |-> [t \in ScalarTags |-> NoElement],
          coords |-> NoElement]

Document(scalars, coords) ==
    [kind |-> "doc", scalars |-> scalars, coords |-> coords]

\* a text cut off before its end: the elements are there, the text does
\* not parse
Truncated(scalars, coords) ==
    [kind |-> "malformed", scalars |-> scalars, coords |-> coords]

XmlTexts ==
    { NoXml } \cup
    { Document(s, c) : s \in Scalars, c \in Coordinates } \cup
    { Truncated(s, NoElement) :
        s \in { x \in Scalars :
                   \A t \in ScalarTags \ { "frc", "currentSpeed" } :
                       x[t] = NoElement } }

(***************************************************************************)
(* extract_weather.parse_weather_response_to_dataframe                     *)
(*                                                                         *)
(* A JSON value, as json.loads returns it: null (None), a number, a        *)
(* string, an object (dict: a function on its keys) or a list.  The same   *)
(* values serve for the dict location_coords.  Raised stands for an        *)
(* expression that raised an exception instead of giving a value.          *)
(***************************************************************************)
JNull == [t |-> "null"]
JNum(n) == [t |-> "num", n |-> n]
JStr(s) == [t |-> "str", s |-> s]
JObj(f) == [t |-> "obj", o |-> f]
JList(l) == [t |-> "list", l |-> l]
Raised == [t |-> "raised"]

EmptyObj == JObj(<<>>)

\* d.get(key, default) of a dict d
DictGet(d, key, default) == IF key \in DOMAIN d.o THEN d.o[key] ELSE default

\* x.get(key, default): AttributeError when x is not a dict
GetOr(x, key, default) ==
    IF x.t = "obj" THEN DictGet(x, key, default) ELSE Raised

\* x.get(key)
GetOf(x, key) == GetOr(x, key, JNull)

\* x[0].get(key): IndexError on an empty list, TypeError or KeyError on a
\* value that is no list, AttributeError on an element that is no dict
FirstGet(x, key) ==
    IF x.t = "list" /\ x.l # <<>> THEN GetOf(x.l[1], key) ELSE Raised

WeatherNumericCols ==
    { "latitude", "longitude", "temperature_celsius", "feels_like_celsius",
      "pressure_hpa", "humidity_percent", "wind_speed_mps", "wind_deg",
      "cloudiness_percent" }

WeatherColumns ==
    WeatherNumericCols \cup
    { "timestamp_utc", "weather_description", "weather_icon", "city_name" }

\* a slip: the coordinates of the response body are taken when it has some
CoordinateFromResponse(data, location_coords, key) ==
    IF data.t = "obj" /\ "coord" \in DOMAIN data.o
    THEN GetOf(data.o["coord"], key)
    ELSE GetOf(location_coords, key)

\* lines 132-133: location_coords.get('lat'), location_coords.get('lon')
CoordinateFromInput(data, location_coords, key) == GetOf(location_coords, key)

\* lines 131-149: the value of one key of the record
WeatherField(data, location_coords, utcnow, col) ==
    CASE col = "latitude" -> CoordinateFromInput(data, location_coords, "lat")
      [] col = "longitude" -> CoordinateFromInput(data, location_coords, "lon")
      [] col = "timestamp_utc" -> JNum(utcnow)
      [] col = "temperature_celsius" -> GetOf(GetOr(data, "main", EmptyObj), "temp")
      [] col = "feels_like_celsius" -> GetOf(GetOr(data, "main", EmptyObj), "feels_like")
      [] col = "pressure_hpa" -> GetOf(GetOr(data, "main", EmptyObj), "pressure")
      [] col = "humidity_percent" -> GetOf(GetOr(data, "main", EmptyObj), "humidity")
      [] col = "wind_speed_mps" -> GetOf(GetOr(data, "wind", EmptyObj), "speed")
      [] col = "wind_deg" -> GetOf(GetOr(data, "wind", EmptyObj), "deg")
      [] col = "weather_description" ->
            FirstGet(GetOr(data, "weather", JList(<< EmptyObj >>)), "description")
      [] col = "weather_icon" ->
            FirstGet(GetOr(data, "weather", JList(<< EmptyObj >>)), "icon")
      [] col = "cloudiness_percent" -> GetOf(GetOr(data, "clouds", EmptyObj), "all")
      [] col = "city_name" -> GetOf(data, "name")

\* lines 131-149: the dict 'record'
WeatherRecord(data, location_coords, utcnow) ==
    [c \in WeatherColumns |-> WeatherField(data, location_coords, utcnow, c)]

\* a value in a column of the frame: None is a null cell
CellOf(x) ==
    IF x.t = "null" THEN Null ELSE IF x.t = "num" THEN Cell(x.n) ELSE Cell(x.s)

\* line 165: pd.to_numeric(errors='coerce') of a number, a string or None
WeatherToNumeric(x) ==
    IF x.t = "num" THEN Cell(x.n)
    ELSE IF x.t = "str" /\ IsNumeral(x.s) THEN Cell(NumberOf[x.s])
    ELSE Null

\* lines 154-165
WeatherConverted(record) ==
    [c \in DOMAIN record |->
        IF c \in WeatherNumericCols THEN WeatherToNumeric(record[c])
        ELSE CellOf(record[c])]

\* lines 103-184
parse_weather_response_to_dataframe(json_data, location_coords, utcnow) ==
    IF json_data.kind = "empty" THEN EmptyFrame                  \* 118-120
    ELSE IF json_data.kind = "malformed" THEN EmptyFrame         \* 177-180
    ELSE LET record == WeatherRecord(json_data.data, location_coords, utcnow)
         IN  IF \E c \in WeatherColumns : record[c].t = "raised"
             THEN EmptyFrame                                     \* 181-184
             ELSE [cols |-> WeatherColumns,
                   rows |-> << WeatherConverted(record) >>]

(***************************************************************************)
(* Response texts and coordinates given to the weather parser.  The values *)
(* at the ends of the paths are numbers, strings or null.                  *)
(***************************************************************************)
Absent == <<>>          \* the object has no such key
Present(x) == <<x>>

MainSamples ==
    { Absent, Present(JNull), Present(EmptyObj),
      Present(JObj("temp" :> JNum(30))),
      Present(JObj(("temp" :> JNum(30)) @@ ("feels_like" :> JStr("36"))
                   @@ ("pressure" :> JNum(1010)) @@ ("humidity" :> JNum(70)))) }

WindSamples ==
    { Absent, Present(JNull),
      Present(JObj(("speed" :> JNum(5)) @@ ("deg" :> JStr("north")))) }

WeatherSamples ==
    { Absent, Present(JNull), Present(JList(<<>>)), Present(JList(<< EmptyObj >>)),
      Present(JList(<< JObj(("description" :> JStr("rain")) @@ ("icon" :> JStr("10d"))) >>)) }

CloudsSamples == { Absent, Present(JNull), Present(JObj("all" :> JNum(40))) }

NameSamples == { Absent, Present(JStr("Saigon")) }

\* the coordinates the response body carries itself
CoordSamples ==
    { Absent, Present(JObj(("lat" :> JNum(80)) @@ ("lon" :> JNum(120)))) }

WeatherKeys == { "main", "wind", "weather", "clouds", "name", "coord" }

\* the object that has the keys given with a value
ObjectOf(entries) ==
    JObj([k \in { x \in DOMAIN entries : entries[x] # Absent } |-> entries[k][1]])

WeatherObjects ==
    { ObjectOf([k \in WeatherKeys |->
                  CASE k = "main" -> m [] k = "wind" -> w [] k = "weather" -> l
                    [] k = "clouds" -> c [] k = "name" -> n [] k = "coord" -> p]) :
        m \in MainSamples, w \in WindSamples, l \in WeatherSamples,
        c \in CloudsSamples, n \in NameSamples, p \in CoordSamples }

NoJson == [kind |-> "empty", data |-> JNull]
JsonDocument(data) == [kind |-> "doc", data |-> data]
\* a text that json.loads rejects
NotJson == [kind |-> "malformed", data |-> JNull]

JsonTexts ==
    { NoJson, NotJson, JsonDocument(JNull), JsonDocument(JNum(7)),
      JsonDocument(JList(<< EmptyObj >>)) }
    \cup { JsonDocument(o) : o \in WeatherObjects }

\* location_coords: numbers, numerals, one without 'lon', and None
LocationCoords ==
    { JObj(("lat" :> JNum(10)) @@ ("lon" :> JNum(106))),
      JObj(("lat" :> JStr("10")) @@ ("lon" :> JStr("106"))),
      JObj(("lat" :> JNum(11)) @@ ("lon" :> JNum(107))),
      JObj("lat" :> JNum(10)),
      JNull }

(***************************************************************************)
(* State.                                                                   *)
(***************************************************************************)
VARIABLES
    tf_pc,         \* transform: "idle", "call" before, "done" after the call
    file_paths,    \* transform: the argument, a list of batch files
    tf_result,     \* transform: the returned triple
    ld_pc,         \* loader: "idle", "connect", "execute", "finally", "returned"
    ld_df,         \* loader: the argument df
    con,           \* loader: the local con: "unbound", "open", "closed"
    ld_error,      \* loader: "none", or the statement whose exception was caught
    ld_signal,     \* loader: what the caller gets: "pending", "None", "raised"
    ld_connects,   \* loader: calls of duckdb.connect made by this call
    ld_executes,   \* loader: calls of con.execute made by this call
    open_conns,    \* database: connections that are open
    db_file,       \* database: the file exists
    db_table,      \* database: the stored table
    db_at_call,    \* history: db_file and db_table when the loader was called
    last_loaded,   \* history: the stored table after the last statement that succeeded
    calls,         \* history: calls of the loader so far
    main_pc,       \* main: "idle", "extract", "transform", "load", "finished"
    px_pc,         \* parsers: "idle", "traffic" or "weather" before the call,
                   \*          "traffic_done" or "weather_done" after it
    xml_data,      \* traffic parser: the argument
    json_data,     \* weather parser: the argument json_data
    location_coords, \* weather parser: the argument location_coords
    px_df,         \* parsers: the frame returned
    wx_pc,         \* weather extraction: "idle", "call" before, "done" after
    wx_location,   \* weather extraction: the argument location_coords
    WEATHER_API_KEY, \* weather extraction: the environment variable is set
    wx_fetched,    \* weather extraction: what the request of this call gives
    wx_saves,      \* weather extraction: to_parquet succeeds in this call
    wx_return,     \* weather extraction: what the caller gets
    ex_pc,         \* extraction: "idle", "loop", "returned"
    points_to_process, \* extraction: the argument, a list of points
    ex_i,          \* extraction: points of the list dealt with so far
    ex_paths,      \* extraction: the local list file_paths
    disk,          \* the batch files on disk: path -> frame
    now,           \* the clock, in seconds
    handled,       \* history: points of this call the loop body has run for
    skipped,       \* history: the points of this call, by index, that gave no frame
    last_step,     \* history: what the last step of the loop did
    saved_now,     \* history: the paths written by this call
    ex_calls,      \* history: calls of the extraction so far
    phase_log,     \* history: the phases main has started, in order
    db_at_start    \* history: db_file and db_table when main started

tf_vars == << tf_pc, file_paths, tf_result >>
ld_vars == << ld_pc, ld_df, con, ld_error, ld_signal, ld_connects, ld_executes >>
db_vars == << open_conns, db_file, db_table >>
hist_vars == << db_at_call, last_loaded, calls >>
wx_vars == << wx_pc, wx_location, WEATHER_API_KEY, wx_fetched, wx_saves, wx_return >>
px_vars == << px_pc, xml_data, json_data, location_coords, px_df, wx_vars >>
ex_vars == << ex_pc, points_to_process, ex_i, ex_paths, disk, now, handled,
             skipped, last_step, saved_now, ex_calls >>
mn_vars == << phase_log, db_at_start >>
other_vars == << px_vars, ex_vars, mn_vars >>
vars == << tf_vars, ld_vars, db_vars, hist_vars, main_pc, other_vars >>

TransformIdle ==
    /\ tf_pc = "idle"
    /\ file_paths = <<>>
    /\ tf_result = EmptyResult

LoadIdle ==
    /\ ld_pc = "idle"
    /\ ld_df = EmptyFrame
    /\ con = "unbound"
    /\ ld_error = "none"
    /\ ld_signal = "pending"
    /\ ld_connects = 0
    /\ ld_executes = 0
    /\ open_conns = 0
    /\ db_file = FALSE
    /\ db_table = NoTable
    /\ db_at_call = [file |-> FALSE, table |-> NoTable]
    /\ last_loaded = NoTable
    /\ calls = 0
    /\ main_pc = "idle"

\* what a call of extract_weather_data gives its caller: None, a path, or
\* an exception
Return(signal, path) == [signal |-> signal, path |-> path]

WeatherIdle ==
    /\ wx_pc = "idle"
    /\ wx_location = JNull
    /\ WEATHER_API_KEY = FALSE
    /\ wx_fetched = NoJson
    /\ wx_saves = FALSE
    /\ wx_return = Return("pending", <<>>)

ParseIdle ==
    /\ px_pc = "idle"
    /\ xml_data = NoXml
    /\ json_data = NoJson
    /\ location_coords = JNull
    /\ px_df = EmptyFrame
    /\ WeatherIdle

NoFiles == <<>>    \* a disk without batch files

\* what a step of the extraction loop did: how it ended and, when it wrote
\* a file, whether the path was new on the disk
Step(what, fresh) == [what |-> what, fresh |-> fresh]

NoStep == Step("none", FALSE)

ExtractIdle ==
    /\ ex_pc = "idle"
    /\ points_to_process = <<>>
    /\ ex_i = 0
    /\ ex_paths = <<>>
    /\ disk = NoFiles
    /\ now = 0
    /\ handled = 0
    /\ skipped = {}
    /\ last_step = NoStep
    /\ saved_now = {}
    /\ ex_calls = 0

MainIdle ==
    /\ phase_log = <<>>
    /\ db_at_start = [file |-> FALSE, table |-> NoTable]

OthersIdle == ParseIdle /\ ExtractIdle /\ MainIdle

(***************************************************************************)
(* The transform, called on each list of batch files.                      *)
(***************************************************************************)
TransformInit ==
    /\ tf_pc = "call"
    /\ \E ks \in Shapes : file_paths \in Inputs(ks)
    /\ tf_result = EmptyResult
    /\ LoadIdle
    /\ OthersIdle

\* one call of transform_traffic_data(file_paths)
TransformTrafficData ==
    /\ tf_pc = "call"
    /\ tf_pc' = "done"
    /\ tf_result' = transform_traffic_data(file_paths)
    /\ UNCHANGED << file_paths, ld_vars, db_vars, hist_vars, main_pc, other_vars >>

SpecTransform == TransformInit /\ [][TransformTrafficData]_vars

(***************************************************************************)
(* The loader, step by step, called by main's load phase or directly.      *)
(***************************************************************************)
\* a slip: the test of line 18 left out
SkipsLoadNever(df) == FALSE

\* line 18: if df.empty
SkipsLoad(df) == IsEmpty(df)

\* lines 7-20: the call; an empty df returns at once
Enter(df) ==
    /\ ld_pc \in {"idle", "returned"}
    /\ calls < MaxCalls
    /\ calls' = calls + 1
    /\ ld_df' = df
    /\ con' = "unbound"
    /\ ld_error' = "none"
    /\ ld_connects' = 0
    /\ ld_executes' = 0
    /\ db_at_call' = [file |-> db_file, table |-> db_table]
    /\ IF SkipsLoad(df)
       THEN ld_pc' = "returned" /\ ld_signal' = "None"
       ELSE ld_pc' = "connect" /\ ld_signal' = "pending"
    /\ UNCHANGED << tf_vars, db_vars, last_loaded, px_vars, ex_vars >>

\* a call from anywhere but main (load_duckdb.py:72)
LoadCall ==
    /\ main_pc \in {"idle", "finished"}
    /\ \E df \in LoadFrames : Enter(df)
    /\ UNCHANGED << main_pc, mn_vars >>

\* main.py:88-104: main loads the transformed table unless it is empty
MainLoadPhase ==
    /\ main_pc = "idle"
    /\ \E df \in LoadFrames : ~IsEmpty(df) /\ Enter(df)
    /\ main_pc' = "load"
    /\ UNCHANGED mn_vars

\* line 24, duckdb.connect succeeds: the file is created if missing
ConnectOk ==
    /\ ld_pc = "connect"
    /\ ld_pc' = "execute"
    /\ con' = "open"
    /\ ld_connects' = ld_connects + 1
    /\ open_conns' = open_conns + 1
    /\ db_file' = TRUE
    /\ UNCHANGED << tf_vars, ld_df, ld_error, ld_signal, ld_executes,
                    db_table, hist_vars, main_pc, other_vars >>

\* line 24 raises; the except clause of lines 37-38 catches it
ConnectFails ==
    /\ ld_pc = "connect"
    /\ ld_pc' = "finally"
    /\ ld_connects' = ld_connects + 1
    /\ ld_error' = "connect"
    /\ UNCHANGED << tf_vars, ld_df, con, ld_signal, ld_executes,
                    db_vars, hist_vars, main_pc, other_vars >>

\* line 29 succeeds: the table is created or replaced in one transaction
ExecuteOk ==
    /\ ld_pc = "execute"
    /\ ld_pc' = "finally"
    /\ ld_executes' = ld_executes + 1
    /\ db_table' = ReplaceTable(db_table, ld_df)
    /\ last_loaded' = Table(ld_df)
    /\ UNCHANGED << tf_vars, ld_df, con, ld_error, ld_signal, ld_connects,
                    open_conns, db_file, db_at_call, calls, main_pc, other_vars >>

\* line 29 raises: the transaction is rolled back; lines 37-38 catch it
ExecuteFails ==
    /\ ld_pc = "execute"
    /\ ld_pc' = "finally"
    /\ ld_executes' = ld_executes + 1
    /\ ld_error' = "execute"
    /\ UNCHANGED << tf_vars, ld_df, con, ld_signal, ld_connects,
                    db_vars, hist_vars, main_pc, other_vars >>

\* a slip: the connection is never closed
MustCloseNever(c) == FALSE

\* lines 41-43: 'con' in locals() and con
MustClose(c) == c = "open"

\* lines 39-45: the finally clause, then the function returns None
\* a slip: the handler lets the exception go on to the caller
SignalAfterReraised(error) == IF error = "none" THEN "None" ELSE "raised"

\* lines 37-45: the handler prints the exception and the function goes on to
\* its end, so the caller gets None after a failure as after a success
SignalAfter(error) == "None"

Finally ==
    /\ ld_pc = "finally"
    /\ ld_pc' = "returned"
    /\ ld_signal' = SignalAfter(ld_error)
    /\ IF MustClose(con)
       THEN con' = "closed" /\ open_conns' = open_conns - 1
       ELSE UNCHANGED << con, open_conns >>
    /\ UNCHANGED << tf_vars, ld_df, ld_error, ld_connects, ld_executes,
                    db_file, db_table, hist_vars, main_pc, other_vars >>

\* main.py:104-107: main goes on after the loader has returned; the call of
\* line 104 is in no try, an exception of the loader would end main
MainFinished ==
    /\ main_pc = "load"
    /\ ld_pc = "returned"
    /\ main_pc' = IF ld_signal = "raised" THEN "raised" ELSE "finished"
    /\ UNCHANGED << tf_vars, ld_vars, db_vars, hist_vars, other_vars >>

LoadInit == TransformIdle /\ LoadIdle /\ OthersIdle

LoadNext ==
    \/ LoadCall
    \/ MainLoadPhase
    \/ ConnectOk
    \/ ConnectFails
    \/ ExecuteOk
    \/ ExecuteFails
    \/ Finally
    \/ MainFinished

SpecLoad == LoadInit /\ [][LoadNext]_vars

(***************************************************************************)
(* What the claims about the transform speak of, read off the input list   *)
(* itself: the files that can be read, their rows, a metric's values.      *)
(***************************************************************************)
FilesRead == SelectSeq(file_paths, LAMBDA f : f.readable)

RECURSIVE RowsOf(_)
RowsOf(fs) == IF fs = <<>> THEN <<>> ELSE Head(fs).df.rows \o RowsOf(Tail(fs))

RowsRead == RowsOf(FilesRead)

ColsRead == UNION { FilesRead[i].df.cols : i \in DOMAIN FilesRead }

\* the values that are not null in column m of the rows rr, in row order
RECURSIVE Values(_, _)
Values(rr, m) ==
    IF rr = <<>> THEN <<>>
    ELSE (IF m \in DOMAIN Head(rr) /\ Head(rr)[m] # Null
          THEN <<Head(rr)[m][1]>> ELSE <<>>) \o Values(Tail(rr), m)

RECURSIVE Total(_)
Total(vs) == IF vs = <<>> THEN 0 ELSE Head(vs) + Total(Tail(vs))

UnitOf(m) ==
    CASE m \in {"currentSpeed", "freeFlowSpeed"} -> "kmph"
      [] m \in {"currentTravelTime", "freeFlowTravelTime"} -> "seconds_per_segment"
      [] m = "confidence" -> "unitless"

Returned == tf_pc = "done"
estimate == tf_result.estimate
averages == tf_result.averages

\* C1: when the mean current speed over the rows read is a number above 0,
\* the estimate is route distance / (mean * 1000 / 3600) seconds, that is
\* estimate * sum * 1000 = 5000 * 3600 * count; a mean of 36 km/h gives 500 s.
C1_EstimateFormula ==
    Returned =>
        LET vs == Values(RowsRead, "currentSpeed")
            k == Len(vs)
            sum == Total(vs)
        IN  (k > 0 /\ sum > 0) =>
              /\ estimate.kind = "num"
              /\ estimate.d > 0
              /\ estimate.n * sum * 1000 = 5000 * 3600 * k * estimate.d
              /\ (sum = 36 * k => estimate.n = 500 * estimate.d)

\* C1 witness: three rows read with speeds 36, 0 and null, mean 18 km/h,
\* estimate 1000 s
C1_Witness ==
    /\ Returned
    /\ Len(RowsRead) = 3
    /\ Len(Values(RowsRead, "currentSpeed")) = 2
    /\ Total(Values(RowsRead, "currentSpeed")) = 36
    /\ estimate.kind = "num"
    /\ estimate.n = 1000 * estimate.d

C3_ReadableRows ==
    Returned =>
        LET out == tf_result.df.rows
            rr == RowsRead
            cs == ColsRead
        IN  /\ Len(out) = Len(rr)
            /\ \A i \in DOMAIN rr :
                 /\ DOMAIN out[i] = cs
                 /\ \A c \in cs :
                      out[i][c] = IF c \in DOMAIN rr[i] THEN rr[i][c] ELSE Null

\* C3 witness: an unreadable file between two files of one row each, two
\* rows combined
C3_Witness ==
    /\ Returned
    /\ Len(file_paths) = 3
    /\ file_paths[1].readable /\ Len(file_paths[1].df.rows) = 1
    /\ ~file_paths[2].readable
    /\ file_paths[3].readable /\ Len(file_paths[3].df.rows) = 1
    /\ file_paths[1].df.rows # file_paths[3].df.rows
    /\ Len(tf_result.df.rows) = 2

IsEntirelyEmpty(r) ==
    IsEmpty(r.df) /\ DOMAIN r.averages = {} /\ r.estimate = None

\* C4: the result is entirely empty (empty table, empty averages, null
\* estimate) exactly when no file was read; after a file is read the
\* averages are not empty.
C4_EmptyIffNothingRead ==
    Returned =>
        /\ IsEntirelyEmpty(tf_result) <=> FilesRead = <<>>
        /\ FilesRead # <<>> => DOMAIN averages # {}

\* C4 witness: the one file read holds no column and no row
C4_Witness ==
    /\ Returned
    /\ Len(FilesRead) = 1
    /\ ColsRead = {}
    /\ IsEmpty(tf_result.df)
    /\ DOMAIN averages # {}

\* C5: the average of a metric that is a column of the combined table is the
\* sum of its non-null values over their number.
C5_MeanOfNonNull ==
    Returned =>
        LET rr == RowsRead
        IN  \A m \in Metrics \cap ColsRead :
              LET vs == Values(rr, m)
                  k == Len(vs)
                  sum == Total(vs)
              IN  \E key \in DOMAIN averages :
                    /\ key.col = m
                    /\ IF k = 0 THEN averages[key] = NaN
                       ELSE /\ averages[key].kind = "num"
                            /\ averages[key].d > 0
                            /\ averages[key].n * k = sum * averages[key].d

\* C5 witness: three rows, freeFlowSpeed 50, null and 70: the mean is 60
C5_Witness ==
    /\ Returned
    /\ Len(RowsRead) = 3
    /\ Values(RowsRead, "freeFlowSpeed") \in {<<50, 70>>, <<70, 50>>}
    /\ \E key \in DOMAIN averages :
         /\ key.col = "freeFlowSpeed"
         /\ averages[key].kind = "num"
         /\ averages[key].n = 60 * averages[key].d

\* C6: after a file is read every key of the averages carries the unit of
\* its metric, and each of the five metrics has such a key, also a metric
\* whose column the combined table lacks.
C6_KeysEncodeUnit ==
    (Returned /\ FilesRead # <<>>) =>
        /\ \A key \in DOMAIN averages : key.unit = UnitOf(key.col)
        /\ \A m \in Metrics : \E key \in DOMAIN averages : key.col = m

(***************************************************************************)
(* Claims about the store loader.                                           *)
(***************************************************************************)
LoaderAtRest == ld_pc \in {"idle", "returned"}

\* C7: a call with an empty table returns without a connection opened or a
\* statement run, and leaves the database file and the stored table as they
\* were when it was called.
C7_EmptyLoadIsNoOp ==
    (ld_pc = "returned" /\ IsEmpty(ld_df)) =>
        /\ ld_connects = 0
        /\ ld_executes = 0
        /\ con = "unbound"
        /\ open_conns = 0
        /\ db_file = db_at_call.file
        /\ db_table = db_at_call.table

\* C7 witness: an empty load has returned and the table of two rows stored
\* before is still there
C7_Witness ==
    /\ ld_pc = "returned"
    /\ IsEmpty(ld_df)
    /\ calls >= 2
    /\ db_table # NoTable
    /\ Len(db_table[1].rows) = 2
    /\ db_table = db_at_call.table

\* C8: the stored table is the table of the most recent load whose replace
\* statement succeeded, which was not empty: its rows, not rows appended to
\* those stored before; it is absent as long as no load has succeeded.
C8_LastSuccessfulLoad ==
    /\ db_table = last_loaded
    /\ db_table # NoTable => ~IsEmpty(db_table[1])
    /\ (ld_pc \in {"finally", "returned"} /\ ld_executes = 1 /\ ld_error = "none")
         => db_table = Table(ld_df)
    /\ (LoaderAtRest /\ (ld_error # "none" \/ IsEmpty(ld_df)))
         => db_table = db_at_call.table

\* C8 witness: a load of one row has succeeded over a stored table of two
\* rows, and one row is stored
C8_Witness ==
    /\ ld_pc = "returned"
    /\ ld_error = "none"
    /\ Len(ld_df.rows) = 1
    /\ db_at_call.table # NoTable
    /\ Len(db_at_call.table[1].rows) = 2
    /\ Len(db_table[1].rows) = 1

\* C9: a load whose connect or replace statement failed is reported to the
\* caller, and main does not finish as after a load that succeeded.
C9_FailureReported ==
    /\ (ld_pc = "returned" /\ ld_error # "none") => ld_signal = "raised"
    /\ ~(main_pc = "finished" /\ ld_error # "none")

\* C10: at most one connection is open at any time, it is the one the
\* running call holds, and none is open once the call has returned.
C10_ConnectionClosed ==
    /\ open_conns \in {0, 1}
    /\ open_conns = 1 <=> con = "open"
    /\ LoaderAtRest => open_conns = 0
    /\ (ld_pc = "returned" /\ ld_connects = 1 /\ ld_error # "connect")
         => con = "closed"

\* C10 witness: the replace statement failed and the call has returned with
\* its connection closed
C10_Witness ==
    /\ ld_pc = "returned"
    /\ ld_error = "execute"
    /\ con = "closed"
    /\ open_conns = 0

(***************************************************************************)
(* The parsers, called on each response text.                              *)
(***************************************************************************)
\* readings of the clock for timestamp_utc
UtcInstants == { 0, 1 }

TrafficParseInit ==
    /\ px_pc = "traffic"
    /\ xml_data \in XmlTexts
    /\ json_data = NoJson
    /\ location_coords = JNull
    /\ px_df = EmptyFrame

WeatherParseInit ==
    /\ px_pc = "weather"
    /\ xml_data = NoXml
    /\ json_data \in JsonTexts
    /\ location_coords \in LocationCoords
    /\ px_df = EmptyFrame

ParseInit ==
    /\ TransformIdle /\ LoadIdle /\ ExtractIdle /\ MainIdle /\ WeatherIdle
    /\ (TrafficParseInit \/ WeatherParseInit)

\* one call of parse_traffic_response_to_dataframe(xml_data)
ParseTrafficResponse ==
    /\ px_pc = "traffic"
    /\ px_pc' = "traffic_done"
    /\ px_df' = parse_traffic_response_to_dataframe(xml_data)
    /\ UNCHANGED << xml_data, json_data, location_coords, wx_vars >>
    /\ UNCHANGED << tf_vars, ld_vars, db_vars, hist_vars, main_pc, ex_vars, mn_vars >>

\* one call of parse_weather_response_to_dataframe(json_data, location_coords)
ParseWeatherResponse ==
    /\ px_pc = "weather"
    /\ px_pc' = "weather_done"
    /\ \E utcnow \in UtcInstants :
          px_df' = parse_weather_response_to_dataframe(json_data, location_coords, utcnow)
    /\ UNCHANGED << xml_data, json_data, location_coords, wx_vars >>
    /\ UNCHANGED << tf_vars, ld_vars, db_vars, hist_vars, main_pc, ex_vars, mn_vars >>

ParseNext ==
    \/ ParseTrafficResponse
    \/ ParseWeatherResponse

SpecParse == ParseInit /\ [][ParseNext]_vars

(***************************************************************************)
(* Claims about the parsers.                                               *)
(***************************************************************************)
TrafficParsed == px_pc = "traffic_done"
WeatherParsed == px_pc = "weather_done"
\* the one record of the frame returned
record == px_df.rows[1]

\* C11: a text that does not parse as a document gives an empty result from
\* both parsers: for malformed XML and for malformed JSON the frame returned
\* has no record at all, and so no record of nulls either.
C11_MalformedGivesEmpty ==
    /\ (TrafficParsed /\ xml_data.kind = "malformed") => IsEmpty(px_df)
    /\ (WeatherParsed /\ json_data.kind = "malformed") => IsEmpty(px_df)

\* a truncated text with a speed element has been parsed
C11_Witness ==
    /\ TrafficParsed
    /\ xml_data.kind = "malformed"
    /\ xml_data.scalars["currentSpeed"] = Element("36")
    /\ px_df = EmptyFrame

\* the same document with the element given for tag t
WithTag(doc, t, element) ==
    Document([doc.scalars EXCEPT ![t] = element], doc.coords)

\* every field but t is what it is for the document that has the tag
OthersAsWithTag(t) ==
    \A element \in ElementsOf(t) \ { NoElement } :
        LET with == parse_traffic_response_to_dataframe(WithTag(xml_data, t, element))
        IN  /\ ~IsEmpty(with)
            /\ \A c \in TrafficColumns \ { t } : with.rows[1][c] = record[c]

\* C12 as stated: for every well-formed document and every scalar tag, a
\* missing tag gives a null field and leaves every other field as it is for
\* the same document with the tag present.
C12_MissingTagIsNull ==
    (TrafficParsed /\ ~IsEmpty(px_df)) =>
        \A t \in ScalarTags :
            xml_data.scalars[t] = NoElement =>
                IsNull(record[t]) /\ OthersAsWithTag(t)

\* C12 amended: a missing tag other than roadClosure gives a null field, a
\* missing roadClosure gives false, and in both cases every other field is
\* as it is for the same document with the tag present.
C12_MissingTagAmended ==
    (TrafficParsed /\ ~IsEmpty(px_df)) =>
        \A t \in ScalarTags :
            xml_data.scalars[t] = NoElement =>
                /\ IF t = "roadClosure"
                   THEN record[t] = Cell(FALSE)
                   ELSE IsNull(record[t])
                /\ OthersAsWithTag(t)

\* a document without currentSpeed and without roadClosure, its other
\* scalar tags present, has given a record
C12_Witness ==
    /\ TrafficParsed
    /\ ~IsEmpty(px_df)
    /\ xml_data.scalars["currentSpeed"] = NoElement
    /\ xml_data.scalars["roadClosure"] = NoElement
    /\ record["frc"] = Cell("FRC3")
    /\ record["freeFlowSpeed"] = Cell(50)
    /\ record["confidence"] = Cell(7)

\* an element whose text is a number
Usable(element) == element # NoElement /\ element[1] \in DOMAIN NumberOf

\* an entry that supplies both values
Supplies(entry) == Usable(entry.lat) /\ Usable(entry.lon)

PairOf(entry) == << NumberOf[entry.lat[1]], NumberOf[entry.lon[1]] >>

\* C13: in every record returned coordinate_count is the length of
\* coordinates; when each of the N entries of the document has a latitude
\* and a longitude, both are N and coordinates holds the (latitude,
\* longitude) pairs in the order of the document.
C13_CoordinateCount ==
    (TrafficParsed /\ ~IsEmpty(px_df)) =>
        LET entries == CoordinateEntries(xml_data)
        IN  /\ ValueOf(record["coordinate_count"]) = Len(record["coordinates"])
            /\ (\A i \in DOMAIN entries : Supplies(entries[i])) =>
                  /\ Len(record["coordinates"]) = Len(entries)
                  /\ \A i \in DOMAIN entries :
                        record["coordinates"][i] = PairOf(entries[i])

\* a document with two different entries, both complete, has been parsed
C13_Witness ==
    /\ TrafficParsed
    /\ ~IsEmpty(px_df)
    /\ Len(CoordinateEntries(xml_data)) = 2
    /\ record["coordinate_count"] = Cell(2)
    /\ record["coordinates"] = << << 10, 106 >>, << 11, 107 >> >>

RECURSIVE UsablePairs(_)
\* the pairs of the entries that supply both values, in document order
UsablePairs(entries) ==
    IF entries = <<>> THEN <<>>
    ELSE (IF Supplies(Head(entries)) THEN << PairOf(Head(entries)) >> ELSE <<>>)
         \o UsablePairs(Tail(entries))

\* C14: every well-formed document gives exactly one record; an entry
\* without a usable latitude and longitude (element absent, text empty or
\* text not a number) is dropped alone, the other coordinates and the
\* scalar fields are those of the document.
C14_EntryDroppedAlone ==
    (TrafficParsed /\ xml_data.kind = "doc") =>
        /\ Len(px_df.rows) = 1
        /\ record["coordinates"] = UsablePairs(CoordinateEntries(xml_data))
        /\ LET bare == parse_traffic_response_to_dataframe(
                           Document(xml_data.scalars, NoElement))
           IN  \A t \in ScalarTags : record[t] = bare.rows[1][t]

\* the path of each target field that lies in a nested object
NestedPath ==
    [c \in { "temperature_celsius", "feels_like_celsius", "pressure_hpa",
             "humidity_percent", "wind_speed_mps", "wind_deg",
             "cloudiness_percent" } |->
        CASE c = "temperature_celsius" -> << "main", "temp" >>
          [] c = "feels_like_celsius" -> << "main", "feels_like" >>
          [] c = "pressure_hpa" -> << "main", "pressure" >>
          [] c = "humidity_percent" -> << "main", "humidity" >>
          [] c = "wind_speed_mps" -> << "wind", "speed" >>
          [] c = "wind_deg" -> << "wind", "deg" >>
          [] c = "cloudiness_percent" -> << "clouds", "all" >>]

\* the first element of the 'weather' list holds these two
ListPath ==
    [c \in { "weather_description", "weather_icon" } |->
        IF c = "weather_description" THEN "description" ELSE "icon"]

\* what the payload has at outer.inner: null when either is missing
FoundNested(data, outer, inner) ==
    IF outer \in DOMAIN data.o /\ data.o[outer].t = "obj"
       /\ inner \in DOMAIN data.o[outer].o
    THEN data.o[outer].o[inner] ELSE JNull

\* what the payload has at weather[0].inner: null when anything is missing
FoundInList(data, inner) ==
    IF "weather" \in DOMAIN data.o /\ data.o["weather"].t = "list"
       /\ data.o["weather"].l # <<>> /\ data.o["weather"].l[1].t = "obj"
       /\ inner \in DOMAIN data.o["weather"].l[1].o
    THEN data.o["weather"].l[1].o[inner] ELSE JNull

\* C15: for every JSON object the weather parser returns exactly one
\* record; a target field whose nested object or field is missing (an
\* empty 'weather' list, an absent or null 'main', 'wind' or 'clouds') is
\* null and every other target field has the value of the payload.
C15_MissingNestedIsNull ==
    (WeatherParsed /\ json_data.kind = "doc" /\ json_data.data.t = "obj"
        /\ location_coords.t = "obj") =>
        /\ Len(px_df.rows) = 1
        /\ \A c \in DOMAIN NestedPath :
              record[c] = WeatherToNumeric(
                  FoundNested(json_data.data, NestedPath[c][1], NestedPath[c][2]))
        /\ \A c \in DOMAIN ListPath :
              record[c] = CellOf(FoundInList(json_data.data, ListPath[c]))

\* the number an input coordinate stands for; null when the key is missing
InputCoordinate(key) ==
    IF key \notin DOMAIN location_coords.o THEN Null
    ELSE LET x == location_coords.o[key]
         IN  IF x.t = "num" THEN Cell(x.n) ELSE Cell(NumberOf[x.s])

\* responses to compare with: with and without coordinates of their own
OtherResponses ==
    { JsonDocument(ObjectOf([k \in WeatherKeys |->
          CASE k = "main" -> m [] k = "coord" -> p [] OTHER -> Absent])) :
        m \in { Absent, Present(JObj("temp" :> JNum(30))) },
        p \in CoordSamples }

\* C16: latitude and longitude of every record returned are the input
\* coordinates, and any other response parsed with the same input
\* coordinates gives a record with the same latitude and longitude, also
\* when a response carries coordinates itself.
C16_CoordinatesFromInput ==
    (WeatherParsed /\ ~IsEmpty(px_df)) =>
        /\ record["latitude"] = InputCoordinate("lat")
        /\ record["longitude"] = InputCoordinate("lon")
        /\ \A other \in OtherResponses, utcnow \in UtcInstants :
              LET df == parse_weather_response_to_dataframe(
                            other, location_coords, utcnow)
              IN  ~IsEmpty(df) =>
                     /\ df.rows[1]["latitude"] = record["latitude"]
                     /\ df.rows[1]["longitude"] = record["longitude"]

\* a response that carries the coordinates (80, 120) has been parsed for
\* the input coordinates (10, 106)
C16_Witness ==
    /\ WeatherParsed
    /\ ~IsEmpty(px_df)
    /\ json_data.kind = "doc"
    /\ "coord" \in DOMAIN json_data.data.o
    /\ json_data.data.o["coord"].o["lat"] = JNum(80)
    /\ record["latitude"] = Cell(10)
    /\ record["longitude"] = Cell(106)

(***************************************************************************)
(* extract_traffic.extract_traffic_data_for_areas                          *)
(***************************************************************************)
\* CONFIG["ROUTE_POINTS_EXAMPLE"], extract_traffic.py:19-23
ROUTE_POINTS_EXAMPLE ==
    << "10.79187,106.68831", "10.78792,106.70215", "10.79096,106.71560" >>

\* line 47: point_identifier.replace('.', '_').replace(',', '-')
SafePointId(point_identifier) ==
    CASE point_identifier = "10.79187,106.68831" -> "10_79187-106_68831"
      [] point_identifier = "10.78792,106.70215" -> "10_78792-106_70215"
      [] point_identifier = "10.79096,106.71560" -> "10_79096-106_71560"

\* lines 41-50: the name of the file is made of the point and of the clock
\* reading, which strftime cuts to whole seconds
construct_file_path(point_identifier, instant) ==
    [point |-> SafePointId(point_identifier), timestamp |-> instant]

\* the response texts a fetch may return
FetchedTexts ==
    { NoXml,
      Truncated([t \in ScalarTags |-> NoElement], NoElement),
      Document([t \in ScalarTags |->
                   IF t = "currentSpeed" THEN Element("36") ELSE NoElement],
               Element(<< Coordinate(Element("10"), Element("106")) >>)),
      Document([t \in ScalarTags |-> NoElement],
               Element(<< Coordinate(Element("abc"), Element("106")) >>)) }

\* the lists of points a caller may pass
PointLists ==
    UNION { [1..k -> { ROUTE_POINTS_EXAMPLE[1], ROUTE_POINTS_EXAMPLE[2] }] :
              k \in 0..MaxPoints }

\* lines 193-199: the call; an empty list returns at once
Begin(points) ==
    /\ ex_pc \in { "idle", "returned" }
    /\ ex_calls < MaxRuns
    /\ ex_calls' = ex_calls + 1
    /\ points_to_process' = points
    /\ ex_i' = 0
    /\ ex_paths' = <<>>
    /\ handled' = 0
    /\ skipped' = {}
    /\ last_step' = NoStep
    /\ saved_now' = {}
    /\ ex_pc' = IF points = <<>> THEN "returned" ELSE "loop"
    /\ UNCHANGED << disk, now >>

\* a call from anywhere but main (extract_traffic.py:230-238)
ExtractCall ==
    /\ main_pc = "idle"
    /\ \E points \in PointLists : Begin(points)
    /\ UNCHANGED << tf_vars, ld_vars, db_vars, hist_vars, main_pc, px_vars, mn_vars >>

InLoop == ex_pc = "loop" /\ ex_i < Len(points_to_process)

point_identifier == points_to_process[ex_i + 1]

\* the rest of a step of the loop that appends no path and writes no file
Skipped(what, next) ==
    /\ ex_i' = next
    /\ handled' = handled + 1
    /\ skipped' = skipped \cup { ex_i + 1 }
    /\ last_step' = Step(what, FALSE)
    /\ UNCHANGED << ex_pc, points_to_process, ex_paths, disk, now, saved_now, ex_calls >>
    /\ UNCHANGED << tf_vars, ld_vars, db_vars, hist_vars, main_pc, px_vars, mn_vars >>

\* lines 206-218, 94-107: the request fails or times out, fetch_data_from_api
\* returns None; or it returns an empty text
FetchFails ==
    /\ InLoop
    /\ Skipped("fetch_failed", ex_i + 1)

\* a slip: the handler leaves the loop
AfterExceptionBreak(i, n) == n

\* lines 220-223: continue
AfterException(i, n) == i + 1

\* lines 202-223: a statement of the loop body raises an exception that is
\* no RequestException; the handler of lines 220-223 catches it
UnexpectedException ==
    /\ InLoop
    /\ Skipped("exception", AfterException(ex_i, Len(points_to_process)))

\* lines 208-216: the text fetched gives an empty frame
ParseGivesNothing ==
    /\ InLoop
    /\ \E text \in FetchedTexts :
          /\ text.kind # "empty"
          /\ IsEmpty(parse_traffic_response_to_dataframe(text))
    /\ Skipped("empty", ex_i + 1)

\* the rest of a step of the loop that got a frame to save
Saving(what, df, path, written) ==
    /\ ex_i' = ex_i + 1
    /\ ex_paths' = Append(ex_paths, path)                       \* line 214
    /\ handled' = handled + 1
    /\ last_step' = Step(what, path \notin DOMAIN disk)
    /\ disk' = IF written THEN Put(disk, path, df) ELSE disk
    /\ saved_now' = IF written THEN saved_now \cup { path } ELSE saved_now
    /\ UNCHANGED << ex_pc, points_to_process, now, skipped, ex_calls >>
    /\ UNCHANGED << tf_vars, ld_vars, db_vars, hist_vars, main_pc, px_vars, mn_vars >>

\* lines 208-214, 58-61: the frame is written to the file
SaveOk ==
    /\ InLoop
    /\ \E text \in FetchedTexts :
          LET df == parse_traffic_response_to_dataframe(text)
          IN  /\ ~IsEmpty(df)
              /\ Saving("saved", df, construct_file_path(point_identifier, now), TRUE)

\* lines 208-214, 62-66: to_parquet raises, save_to_parquet prints and returns
SaveFails ==
    /\ InLoop
    /\ \E text \in FetchedTexts :
          LET df == parse_traffic_response_to_dataframe(text)
          IN  /\ ~IsEmpty(df)
              /\ Saving("save_failed", df, construct_file_path(point_identifier, now), FALSE)

\* lines 225-226: the loop is over
ExtractReturn ==
    /\ ex_pc = "loop"
    /\ ex_i >= Len(points_to_process)
    /\ ex_pc' = "returned"
    /\ UNCHANGED << points_to_process, ex_i, ex_paths, disk, now, handled,
                    skipped, last_step, saved_now, ex_calls >>
    /\ UNCHANGED << tf_vars, ld_vars, db_vars, hist_vars, main_pc, px_vars, mn_vars >>

\* a second goes by on the clock read at line 46
Tick ==
    /\ now < MaxTime
    /\ now' = now + 1
    /\ UNCHANGED << ex_pc, points_to_process, ex_i, ex_paths, disk, handled,
                    skipped, last_step, saved_now, ex_calls >>
    /\ UNCHANGED << tf_vars, ld_vars, db_vars, hist_vars, main_pc, px_vars, mn_vars >>

ExtractInit == TransformIdle /\ LoadIdle /\ OthersIdle

ExtractNext ==
    \/ ExtractCall
    \/ FetchFails
    \/ UnexpectedException
    \/ ParseGivesNothing
    \/ SaveOk
    \/ SaveFails
    \/ ExtractReturn
    \/ Tick

SpecExtract == ExtractInit /\ [][ExtractNext]_vars

(***************************************************************************)
(* Claims about the extraction.                                            *)
(***************************************************************************)
ExtractReturned == ex_pc = "returned"

PathsReturned == { ex_paths[i] : i \in DOMAIN ex_paths }

\* C17: every path of the list returned names a file that this call has
\* saved; a point whose save failed has no path in the list.
C17_PathsWereSaved ==
    ExtractReturned => PathsReturned \subseteq saved_now

\* the points of the list, by index, that gave a frame, in order
Kept == SelectSeq([i \in DOMAIN points_to_process |-> i],
                  LAMBDA i : i \notin skipped)

\* C18: when the call returns every point of the list has been dealt with,
\* in order; a point whose fetch failed, whose parse gave nothing or whose
\* step raised wrote no file and added no path; the list returned holds at
\* most one path per point, in the order of the points.
C18_EveryPointProcessed ==
    ExtractReturned =>
        /\ handled = Len(points_to_process)
        /\ Len(ex_paths) = Len(Kept)
        /\ \A k \in DOMAIN ex_paths :
              ex_paths[k].point = SafePointId(points_to_process[Kept[k]])
        /\ saved_now \subseteq PathsReturned
        /\ Len(ex_paths) <= Len(points_to_process)

\* a call has returned whose first point gave no frame and whose second
\* was saved
C18_Witness ==
    /\ ExtractReturned
    /\ Len(points_to_process) = 2
    /\ skipped = { 1 }
    /\ last_step.what = "saved"
    /\ Len(ex_paths) = 1
    /\ ex_paths[1] \in DOMAIN disk

\* C20: every file saved is written at a path that no earlier fetch, of this
\* call or of an earlier one, has written; no file is written over, also
\* when a point is fetched twice within one second.
C20_NeverOverwritten ==
    last_step.what = "saved" => last_step.fresh

(***************************************************************************)
(* main.main: one run of the pipeline.  CONFIG names three points, so the  *)
(* return of lines 59-62 for an empty list of points is never taken.       *)
(***************************************************************************)
\* what the store holds before the run: nothing, or the table of a run before
StoredBefore ==
    { NoTable,
      Table(parse_traffic_response_to_dataframe(
          Document([t \in ScalarTags |->
                       IF t = "currentSpeed" THEN Element("50") ELSE NoElement],
                   NoElement))) }

MainInit ==
    /\ TransformIdle /\ ParseIdle /\ ExtractIdle
    /\ ld_pc = "idle"
    /\ ld_df = EmptyFrame
    /\ con = "unbound"
    /\ ld_error = "none"
    /\ ld_signal = "pending"
    /\ ld_connects = 0
    /\ ld_executes = 0
    /\ open_conns = 0
    /\ db_table \in StoredBefore
    /\ db_file \in { f \in BOOLEAN : db_table # NoTable => f }
    /\ db_at_call = [file |-> FALSE, table |-> NoTable]
    /\ last_loaded = db_table
    /\ calls = 0
    /\ main_pc = "idle"
    /\ phase_log = <<>>
    /\ db_at_start = [file |-> db_file, table |-> db_table]

\* lines 46-47: TOMTOM_API_KEY is not set, main raises ValueError
MainRaises ==
    /\ main_pc = "idle"
    /\ main_pc' = "raised"
    /\ UNCHANGED << tf_vars, ld_vars, db_vars, hist_vars, other_vars >>

\* lines 58-69: the extraction phase starts with the points of CONFIG
MainExtraction ==
    /\ main_pc = "idle"
    /\ main_pc' = "extract"
    /\ Begin(ROUTE_POINTS_EXAMPLE)
    /\ phase_log' = Append(phase_log, "extraction")
    /\ UNCHANGED << tf_vars, ld_vars, db_vars, hist_vars, px_vars, db_at_start >>

\* a slip: the test of line 72 left out
ExtractionProducedFilesAlways(extracted_file_paths) == TRUE

\* line 72: if not extracted_file_paths
ExtractionProducedFiles(extracted_file_paths) == extracted_file_paths # <<>>

\* lines 72-75: the extraction gave no path, main returns
MainNoFiles ==
    /\ main_pc = "extract"
    /\ ex_pc = "returned"
    /\ ~ExtractionProducedFiles(ex_paths)
    /\ main_pc' = "finished"
    /\ UNCHANGED << tf_vars, ld_vars, db_vars, hist_vars, other_vars >>

\* traffic_transform.py:31-36: what pd.read_parquet finds at a path
ReadFile(path) ==
    IF path \in DOMAIN disk THEN ReadableFile(disk[path]) ELSE Unreadable

\* lines 72-85: the transformation phase, on the paths the extraction gave
MainTransform ==
    /\ main_pc = "extract"
    /\ ex_pc = "returned"
    /\ ExtractionProducedFiles(ex_paths)
    /\ main_pc' = "transform"
    /\ file_paths' = [i \in DOMAIN ex_paths |-> ReadFile(ex_paths[i])]
    /\ tf_result' = transform_traffic_data(file_paths')
    /\ tf_pc' = "done"
    /\ phase_log' = Append(phase_log, "transformation")
    /\ UNCHANGED << ld_vars, db_vars, hist_vars, px_vars, ex_vars, db_at_start >>

\* lines 88-89: the transformed table is empty, main loads nothing
MainSkipsLoad ==
    /\ main_pc = "transform"
    /\ IsEmpty(tf_result.df)
    /\ main_pc' = "finished"
    /\ UNCHANGED << tf_vars, ld_vars, db_vars, hist_vars, other_vars >>

\* lines 88-104: the load phase, on the transformed table
MainLoad ==
    /\ main_pc = "transform"
    /\ ~IsEmpty(tf_result.df)
    /\ main_pc' = "load"
    /\ Enter(tf_result.df)
    /\ phase_log' = Append(phase_log, "load")
    /\ UNCHANGED db_at_start

MainNext ==
    \/ MainRaises
    \/ MainExtraction
    \/ FetchFails
    \/ UnexpectedException
    \/ ParseGivesNothing
    \/ SaveOk
    \/ SaveFails
    \/ ExtractReturn
    \/ Tick
    \/ MainNoFiles
    \/ MainTransform
    \/ MainSkipsLoad
    \/ MainLoad
    \/ ConnectOk
    \/ ConnectFails
    \/ ExecuteOk
    \/ ExecuteFails
    \/ Finally
    \/ MainFinished

SpecMain == MainInit /\ [][MainNext]_vars

(***************************************************************************)
(* Claims about main.                                                      *)
(***************************************************************************)
Phases == << "extraction", "transformation", "load" >>

Started(phase) == \E i \in DOMAIN phase_log : phase_log[i] = phase

\* C19: in a run of main the phases start in the order extraction,
\* transformation, load, each at most once; the transformation starts only
\* when the extraction has dealt with all points and returned a path; the
\* loader is called only with a table that is not empty; a run that does
\* not reach the load leaves the store as it was.
C19_PhasesInOrder ==
    /\ Len(phase_log) <= Len(Phases)
    /\ \A i \in DOMAIN phase_log : phase_log[i] = Phases[i]
    /\ Started("transformation") =>
          /\ ex_pc = "returned"
          /\ points_to_process = ROUTE_POINTS_EXAMPLE
          /\ handled = Len(points_to_process)
          /\ ex_paths # <<>>
    /\ calls <= 1
    /\ (calls = 1) <=> Started("load")
    /\ Started("load") => ~IsEmpty(ld_df) /\ ld_df = tf_result.df
    /\ ~Started("load") =>
          /\ db_file = db_at_start.file
          /\ db_table = db_at_start.table
          /\ ld_connects = 0

\* a run has gone through the three phases, one point gave no path, and
\* the table of the run has taken the place of the one stored before
C19_Witness ==
    /\ main_pc = "finished"
    /\ phase_log = Phases
    /\ Len(ex_paths) = 2
    /\ db_at_start.table # NoTable
    /\ db_table = Table(tf_result.df)
    /\ db_table # db_at_start.table

(***************************************************************************)
(* extract_weather_data, called once for a location: the environment gives *)
(* the API key or not, the answer to the request, and whether the file can *)
(* be written.                                                             *)
(***************************************************************************)
\* lines 201-202: str.replace('.', '_').replace('-', 'minus') on the texts
\* of the model
Sanitized(text) ==
    CASE text = "-10" -> "minus10"
      [] OTHER -> text

\* lines 187-206: the name of the file is made of the two coordinates and of
\* the clock reading; .replace on a value that is no str is an AttributeError
construct_weather_file_path(coords, instant) ==
    LET lat == DictGet(coords, "lat", JStr("unknown"))
        lon == DictGet(coords, "lon", JStr("unknown"))
    IN  IF lat.t = "str" /\ lon.t = "str"
        THEN [t |-> "path", lat |-> Sanitized(lat.s), lon |-> Sanitized(lon.s),
              timestamp |-> instant]
        ELSE Raised

\* lines 78-100: the request failed, fetch_data_from_api returns None
FetchFailed == [kind |-> "failed", data |-> JNull]

\* lines 234-315
extract_weather_data(coords, api_key, fetched, saves, instant) ==
    LET lat == GetOf(coords, "lat")
        lon == GetOf(coords, "lon")
    IN  IF lat.t = "raised" THEN Return("raised", <<>>)             \* 243
        ELSE IF lat.t = "null" \/ lon.t = "null"
        THEN Return("None", <<>>)                                   \* 247-249
        ELSE IF ~api_key THEN Return("None", <<>>)                  \* 253-256
        ELSE IF fetched.kind \in { "failed", "empty" }
        THEN Return("None", <<>>)                                   \* 275, 299-302
        ELSE LET df == parse_weather_response_to_dataframe(fetched, coords, instant)
             IN  IF IsEmpty(df) THEN Return("None", <<>>)           \* 279, 294-297
                 ELSE LET file_path == construct_weather_file_path(coords, instant)
                      IN  IF file_path.t = "raised"
                          THEN Return("raised", <<>>)               \* 281, 305-315
                          ELSE IF ~saves
                          THEN Return("raised", <<>>)               \* 288, 219-229, 305-315
                          ELSE Return("path", << file_path >>)      \* 288-291

\* the locations given: those given to the parser, and one south of the
\* equator
WeatherLocations ==
    LocationCoords \cup { JObj(("lat" :> JStr("-10")) @@ ("lon" :> JStr("106"))) }

ExtractWeatherInit ==
    /\ TransformIdle /\ LoadIdle /\ ExtractIdle /\ MainIdle
    /\ px_pc = "idle"
    /\ xml_data = NoXml
    /\ json_data = NoJson
    /\ location_coords = JNull
    /\ px_df = EmptyFrame
    /\ wx_pc = "call"
    /\ wx_location \in WeatherLocations
    /\ WEATHER_API_KEY \in BOOLEAN
    /\ wx_fetched \in JsonTexts \cup { FetchFailed }
    /\ wx_saves \in BOOLEAN
    /\ wx_return = Return("pending", <<>>)

\* lines 234-315: the call; a file is written when the path is returned
ExtractWeatherData ==
    /\ wx_pc = "call"
    /\ wx_pc' = "done"
    /\ LET returned == extract_weather_data(wx_location, WEATHER_API_KEY,
                                            wx_fetched, wx_saves, now)
       IN  /\ wx_return' = returned
           /\ disk' = IF returned.signal = "path"
                      THEN Put(disk, returned.path[1],
                               parse_weather_response_to_dataframe(
                                   wx_fetched, wx_location, now))
                      ELSE disk
    /\ UNCHANGED << wx_location, WEATHER_API_KEY, wx_fetched, wx_saves >>
    /\ UNCHANGED << px_pc, xml_data, json_data, location_coords, px_df >>
    /\ UNCHANGED << ex_pc, points_to_process, ex_i, ex_paths, now, handled,
                    skipped, last_step, saved_now, ex_calls >>
    /\ UNCHANGED << tf_vars, ld_vars, db_vars, hist_vars, main_pc, mn_vars >>

WeatherNext ==
    \/ ExtractWeatherData
    \/ Tick

SpecWeather == ExtractWeatherInit /\ [][WeatherNext]_vars

(***************************************************************************)
(* The claim about extract_weather_data.                                   *)
(***************************************************************************)
\* the location has a lat and a lon that are not None
HasLatLon(coords) ==
    /\ coords.t = "obj"
    /\ { "lat", "lon" } \subseteq DOMAIN coords.o
    /\ coords.o["lat"].t # "null"
    /\ coords.o["lon"].t # "null"

\* the frame the parser makes of the answer of this call at an instant
WeatherFrame(instant) ==
    parse_weather_response_to_dataframe(wx_fetched, wx_location, instant)

\* the parser makes a record of the answer: the instant does not matter
WeatherParses == ~IsEmpty(WeatherFrame(0))

\* C21: with the API key configured and a location whose lat and lon are
\* present, numbers as in the documented example included, the call returns
\* a path or None and never raises: when the fetch succeeds and the answer
\* parses to a record, the record is in the file at the path returned; when
\* the fetch or the parse fails, None is returned.
C21_PathOrNone ==
    (wx_pc = "done" /\ WEATHER_API_KEY /\ HasLatLon(wx_location)) =>
        /\ wx_return.signal \in { "path", "None" }
        /\ (wx_fetched.kind # "failed" /\ WeatherParses) =>
              /\ wx_return.signal = "path"
              /\ wx_return.path[1] \in DOMAIN disk
              /\ disk[wx_return.path[1]] = WeatherFrame(wx_return.path[1].timestamp)
        /\ (wx_fetched.kind = "failed" \/ ~WeatherParses) =>
              wx_return.signal = "None"

(***************************************************************************)
(* A run of main goes on: the interpreter takes the next step of main, of  *)
(* the extraction loop or of the loader whenever there is one.  Requests   *)
(* have a timeout (extract_traffic.py:101), so each step ends.  The clock  *)
(* is no step of the program.                                              *)
(***************************************************************************)
\* the steps of a run but the start of the transformation
MainRun ==
    \/ MainRaises
    \/ MainExtraction
    \/ FetchFails
    \/ UnexpectedException
    \/ ParseGivesNothing
    \/ SaveOk
    \/ SaveFails
    \/ ExtractReturn
    \/ MainNoFiles
    \/ MainSkipsLoad
    \/ MainLoad
    \/ ConnectOk
    \/ ConnectFails
    \/ ExecuteOk
    \/ ExecuteFails
    \/ Finally
    \/ MainFinished

\* main.py:72-85: main goes from the extraction to the transformation; among
\* the steps of MainNext these are the steps MainTransform, whose guard this
\* is
TransformStarts ==
    /\ main_pc = "extract"
    /\ ex_pc = "returned"
    /\ ExtractionProducedFiles(ex_paths)
    /\ main_pc' = "transform"

SpecMainLive ==
    MainInit /\ [][MainNext]_vars /\ WF_vars(MainRun) /\ WF_main_pc(TransformStarts)

\* the configuration checks of main have passed: the extraction was started
ChecksPassed == Started("extraction")

\* some path the extraction returned has no file behind it
SomeFileUnreadable == \E i \in DOMAIN ex_paths : ex_paths[i] \notin DOMAIN disk

\* C22: once the configuration checks have passed, a run of main ends by
\* returning and never by raising, whatever fetches, parses, saves, reads of
\* batch files and writes to the store fail: main raises only at the
\* configuration check, before any phase, and a run that has passed the
\* checks leads to the return of main.
C22_MainReturns ==
    /\ [](main_pc = "raised" => ~ChecksPassed)
    /\ (ChecksPassed ~> (main_pc = "finished"))

\* a run has returned after a point was skipped, a save failed, the file of
\* a path could not be read and the write to the store failed
C22_Witness ==
    /\ main_pc = "finished"
    /\ ChecksPassed
    /\ skipped # {}
    /\ SomeFileUnreadable
    /\ ld_pc = "returned"
    /\ ld_error # "none"

====
